---------------------------- MODULE Spec2Model ----------------------------
(***************************************************************************)
(* Game session controller of the Stockfish trainer (ChessGUI in           *)
(* src/stockfish_trainer/gui.py): mode flags, move stack, undo/redo,       *)
(* clock, training sequencer, and the asynchronous exchange with the       *)
(* search engine through Tk timers, worker threads and engine_queue.       *)
(*                                                                         *)
(* The rules engine (python-chess) is outside the repository.  It is       *)
(* replaced by a small game with the same interface: a position is its     *)
(* move stack, the legal moves depend on the position, some moves end the  *)
(* game with a win for the mover, and a position of MaxPly plies is a      *)
(* draw.  Every handler is an operator on the record of the object's       *)
(* fields (St); an action applies one handler, or one step of a worker     *)
(* thread, and writes the record back.                                     *)
(***************************************************************************)
EXTENDS Integers, Sequences, FiniteSets, TLC

\* ------------------------------------------------------------------ bounds
MaxPly == 4          \* plies after which the position is a draw
SecPerMin == 2       \* clock ticks per minute of the time control
MaxClock == 3        \* cap on a side's remaining time (increments add up)
MaxGames == 2        \* cap on stats["games"]
MaxThreads == 1      \* cap on engine threads alive at once
MaxQueue == 1        \* cap on len(engine_queue)
MaxTickJobs == 2     \* cap on pending tick_clock callbacks
MaxAutoJobs == 1     \* cap on pending stockfish_move_once_for_auto callbacks
MaxManualJobs == 1   \* cap on pending stockfish_move_once_for_manual callbacks
MaxRedo == 2         \* cap on len(move_stack_for_redo)

\* ----------------------------------------------------------- program data
WHITE == TRUE
BLACK == FALSE
None  == "None"
Moves == {"a", "b", "x"}

ClampMinLo == 1
ClampMinHi == 180
ClampIncLo == 0
ClampIncHi == 60

TimeMinutesChoices == {1}         \* values of time_minutes_var
IncrementChoices   == {0, 1}      \* values of increment_var

Max2(a, b) == IF a >= b THEN a ELSE b
Min2(a, b) == IF a <= b THEN a ELSE b

clamp(v, vmin, vmax) == Max2(vmin, Min2(v, vmax))

\* ----------------------------------------------------------- rules engine
\* chess.Board: the position is the move stack; White moves at even length.
turn(b) == IF Len(b) % 2 = 0 THEN WHITE ELSE BLACK

\* "x" mates; it can only be played once "a" has been played.
is_checkmate(b) == Len(b) >= 2 /\ b[Len(b)] = "x"

is_game_over(b) == is_checkmate(b) \/ Len(b) >= MaxPly

\* A move may not repeat the move just played; "x" needs an "a" somewhere
\* before it, so that its legality depends on the moves played so far and
\* not on the last move alone.
legal_moves(b) ==
    IF is_game_over(b) THEN {}
    ELSE { m \in Moves : /\ (Len(b) > 0 => m # b[Len(b)])
                         /\ (m = "x" => \E i \in 1..Len(b) : b[i] = "a") }

\* board.result(): the mover of the mating move wins.
result(b) ==
    IF is_checkmate(b) THEN (IF turn(b) = BLACK THEN "1-0" ELSE "0-1")
    ELSE IF is_game_over(b) THEN "1/2-1/2"
    ELSE "*"

\* board.pop() / board.push(mv)
Pop(b)  == SubSeq(b, 1, Len(b) - 1)
Top(b)  == b[Len(b)]

\* --------------------------------------------------- JSON and Python values
\* A value carries its type: isinstance and "is None" read the tag t.  A dict
\* is its keys in insertion order (k) and their values (v); a dict or a list
\* also carries the identity of the object (id): 0 for an object created by
\* the call at hand, another number for an object the caller holds.
PyNone == [t |-> "null"]
PyStr(s) == [t |-> "str", s |-> s]
PyNum(n) == [t |-> "num", n |-> n]
PyList(id, l) == [t |-> "list", id |-> id, l |-> l]
PyDict(id, k, v) == [t |-> "dict", id |-> id, k |-> k, v |-> v]

\* d.get(key, default)
Get(d, key, default) ==
    IF \E i \in DOMAIN d.k : d.k[i] = key
    THEN d.v[CHOOSE i \in DOMAIN d.k : d.k[i] = key]
    ELSE default

\* bool(value) for None, a dict, a list or a string.
Truthy(value) ==
    IF value.t = "null" THEN FALSE
    ELSE IF value.t = "dict" THEN value.k # << >>
    ELSE IF value.t = "list" THEN value.l # << >>
    ELSE IF value.t = "str" THEN value.s # ""
    ELSE value.n # 0

\* str(value)
Str(value) ==
    IF value.t = "str" THEN value.s
    ELSE IF value.t = "num" THEN ToString(value.n)
    ELSE IF value.t = "null" THEN "None"
    ELSE IF value.t = "list" THEN "[..]"
    ELSE "{..}"

\* dict(value): a new dict holding the same values.
DictCopy(value) == [value EXCEPT !.id = 0]

\* copy.deepcopy(value)
RECURSIVE deepcopy(_)
deepcopy(value) ==
    IF value.t = "dict"
    THEN [value EXCEPT !.id = 0,
                       !.v = [i \in DOMAIN value.v |-> deepcopy(value.v[i])]]
    ELSE IF value.t = "list"
    THEN [value EXCEPT !.id = 0,
                       !.l = [i \in DOMAIN value.l |-> deepcopy(value.l[i])]]
    ELSE value

\* The identities of the dicts and lists a value is made of.
RECURSIVE Ids(_)
Ids(value) ==
    IF value.t = "dict"
    THEN {value.id} \cup UNION { Ids(value.v[i]) : i \in DOMAIN value.v }
    ELSE IF value.t = "list"
    THEN {value.id} \cup UNION { Ids(value.l[i]) : i \in DOMAIN value.l }
    ELSE {}

\* The value as it reads after the object id was mutated in place (a key
\* added to a dict, an item appended to a list).
RECURSIVE Mutated(_, _)
Mutated(value, id) ==
    IF value.t = "dict"
    THEN LET inner == [value EXCEPT
                          !.v = [i \in DOMAIN value.v |-> Mutated(value.v[i], id)]]
         IN  IF value.id = id
             THEN [inner EXCEPT !.k = Append(@, "mutated"),
                                !.v = Append(@, PyNone)]
             ELSE inner
    ELSE IF value.t = "list"
    THEN LET inner == [value EXCEPT
                          !.l = [i \in DOMAIN value.l |-> Mutated(value.l[i], id)]]
         IN  IF value.id = id
             THEN [inner EXCEPT !.l = Append(@, PyNone)]
             ELSE inner
    ELSE value

\* ------------------------------------------------------- opening catalogue
\* utils.MINIMAL_OPENINGS, a module global: its dict, its entry and the list
\* of the entry are the objects 11, 12 and 13.
MINIMAL_OPENINGS ==
    PyDict(11, <<"Libre">>,
           << PyDict(12,
                     <<"variations", "description", "recommended_color">>,
                     << PyList(13, << >>),
                        PyStr("Mode libre sans sequence imposee."),
                        PyNone >>) >>)

\* The except clause and the empty-result return of load_training_openings.
FallbackCopy(fallback_data) ==
    deepcopy([fallback_data EXCEPT
                 !.id = 0,
                 !.v = [i \in DOMAIN fallback_data.v |->
                            DictCopy(fallback_data.v[i])]])

\* One pass of the loop over variations_data; "raised" stands for the
\* ValueError of the pass.
NormalizeVariation(variation, idx) ==
    IF variation.t = "null" THEN [raised |-> FALSE, skipped |-> TRUE]
    ELSE IF variation.t \notin {"list", "dict"}
    THEN [raised |-> TRUE, skipped |-> FALSE]
    ELSE LET variation_entry ==
                 IF variation.t = "list"
                 THEN PyDict(0, <<"moves">>, <<variation>>)
                 ELSE variation
             moves0 == Get(variation_entry, "moves", PyList(0, << >>))
             moves == IF moves0.t = "null" THEN PyList(0, << >>) ELSE moves0
             name0 == Get(variation_entry, "name", PyNone)
             var_name == IF name0.t = "null" \/ Str(name0) \in {"", " "}
                         THEN "Variante " \o ToString(idx + 1)
                         ELSE Str(name0)
         IN  IF moves.t # "list" THEN [raised |-> TRUE, skipped |-> FALSE]
             ELSE [raised |-> FALSE, skipped |-> FALSE,
                   value |-> PyDict(0, <<"name", "moves">>,
                                    << PyStr(var_name),
                                       PyList(0, [i \in DOMAIN moves.l |->
                                                     PyStr(Str(moves.l[i]))]) >>)]

\* The loop over variations_data from index idx on.
RECURSIVE NormalizeVariations(_, _)
NormalizeVariations(variations_data, idx) ==
    IF idx >= Len(variations_data) THEN [raised |-> FALSE, l |-> << >>]
    ELSE LET head == NormalizeVariation(variations_data[idx + 1], idx)
             rest == NormalizeVariations(variations_data, idx + 1)
         IN  IF head.raised \/ rest.raised THEN [raised |-> TRUE, l |-> << >>]
             ELSE IF head.skipped THEN rest
             ELSE [raised |-> FALSE, l |-> <<head.value>> \o rest.l]

\* One pass of the loop over raw_data.items().
NormalizeEntry(entry) ==
    IF entry.t # "dict" THEN [raised |-> TRUE]
    ELSE LET v0 == Get(entry, "variations", PyNone)
             v1 == IF v0.t = "null" /\ (\E i \in DOMAIN entry.k : entry.k[i] = "moves")
                   THEN PyList(0, << PyDict(0, <<"name", "moves">>,
                                        << Get(entry, "variation_name", PyNone),
                                           Get(entry, "moves", PyList(0, << >>)) >>) >>)
                   ELSE v0
             variations_data == IF v1.t = "null" THEN PyList(0, << >>) ELSE v1
         IN  IF variations_data.t # "list" THEN [raised |-> TRUE]
             ELSE LET nv == NormalizeVariations(variations_data.l, 0)
                      rc == Get(entry, "recommended_color", PyNone)
                  IN  IF nv.raised THEN [raised |-> TRUE]
                      ELSE [raised |-> FALSE,
                            value |->
                                PyDict(0, <<"variations", "description",
                                            "recommended_color">>,
                                       << PyList(0, nv.l),
                                          PyStr(Str(Get(entry, "description", PyStr("")))),
                                          IF rc.t \in {"null", "str"} THEN rc
                                          ELSE PyStr(Str(rc)) >>)]

\* The file at json_path: it cannot be opened or read ("missing",
\* "unreadable"), json.load rejects it ("invalid"), or it parses to a value.
FileError(state) == [state |-> state]
FileJson(value) == [state |-> "json", json |-> value]

load_training_openings(json_file, fallback) ==
    LET fallback_data == IF Truthy(fallback) THEN fallback ELSE MINIMAL_OPENINGS
    IN  IF json_file.state # "json" THEN FallbackCopy(fallback_data)
        ELSE LET raw_data == json_file.json
             IN  IF raw_data.t # "dict" THEN FallbackCopy(fallback_data)
                 ELSE LET entries == [i \in DOMAIN raw_data.v |->
                                          NormalizeEntry(raw_data.v[i])]
                      IN  IF \E i \in DOMAIN entries : entries[i].raised
                          THEN FallbackCopy(fallback_data)
                          ELSE IF raw_data.k = << >>
                          THEN FallbackCopy(fallback_data)
                          ELSE PyDict(0, raw_data.k,
                                      [i \in DOMAIN entries |-> entries[i].value])

\* ChessGUI.load_default_openings
load_default_openings(json_file) ==
    LET openings == load_training_openings(json_file, MINIMAL_OPENINGS)
    IN  IF ~Truthy(openings)
        THEN [MINIMAL_OPENINGS EXCEPT
                 !.id = 0,
                 !.v = [i \in DOMAIN MINIMAL_OPENINGS.v |->
                            DictCopy(MINIMAL_OPENINGS.v[i])]]
        ELSE openings

\* A list of SAN strings.
SanList(sans) == PyList(0, [i \in DOMAIN sans |-> PyStr(sans[i])])

\* A catalogue as the training code reads it: an entry with a line carries
\* it under "moves".
TrainingCatalogue ==
    PyDict(0, <<"Libre", "Ligne", "Mat", "Retour", "Invalide">>,
           << PyDict(0, <<"variations">>, << PyList(0, << >>) >>),
              PyDict(0, <<"moves">>, << SanList(<<"a", "b", "a">>) >>),
              PyDict(0, <<"moves">>, << SanList(<<"a", "x">>) >>),
              PyDict(0, <<"moves">>, << SanList(<<"b", "a", "b", "x">>) >>),
              PyDict(0, <<"moves">>, << SanList(<<"a", "a">>) >>) >>)

\* The keys of a dict.
Keys(d) == { d.k[i] : i \in DOMAIN d.k }

OpeningNames == Keys(TrainingCatalogue)

VARIABLES
    board,               \* self.board.move_stack
    player_color,        \* self.player_color
    game_active,         \* self.game_active
    auto_mode,           \* self.auto_mode
    training_active,     \* self.training_active
    training_line,       \* self.training_line
    training_index,      \* self.training_index
    training_mode_var,   \* self.training_mode_var (check box)
    last_move,           \* self.last_move
    move_stack_for_redo, \* self.move_stack_for_redo
    time_white,          \* self.time_white
    time_black,          \* self.time_black
    increment,           \* self.increment
    clock_running,       \* self.clock_running
    clock_job,           \* self.clock_job names a pending tick callback
    tick_jobs,           \* pending after(1000, tick_clock) callbacks
    auto_job,            \* self.auto_job names a pending auto callback
    auto_jobs,           \* pending after(150, stockfish_move_once_for_auto)
    manual_jobs,         \* pending after(.., stockfish_move_once_for_manual)
    inputs_disabled,     \* state of the buttons set by disable_inputs
    stats,               \* self.stats
    stockfish_ready,     \* self.stockfish_ready
    engine_pos,          \* position held by the engine process (set_position)
    threads,             \* engine_task threads alive, in start order
    engine_queue,        \* self.engine_queue
    training_lines,      \* self.training_lines
    json_file,           \* the openings file that load_training_openings reads
    fallback,            \* the fallback argument of load_training_openings
    returned             \* the value load_training_openings returned

vars == << board, player_color, game_active, auto_mode, training_active,
           training_line, training_index, training_mode_var, last_move,
           move_stack_for_redo, time_white, time_black, increment,
           clock_running, clock_job, tick_jobs, auto_job, auto_jobs,
           manual_jobs, inputs_disabled, stats, stockfish_ready, engine_pos,
           threads, engine_queue, training_lines, json_file, fallback,
           returned >>

\* data.get("moves", []) for data = self.training_lines.get(name, {}), as the
\* sequence of its items.
get_moves(name) ==
    LET data == Get(training_lines, name, PyDict(0, << >>, << >>))
        moves == Get(data, "moves", PyList(0, << >>))
    IN  IF moves.t = "list" THEN [i \in DOMAIN moves.l |-> Str(moves.l[i])]
        ELSE << >>

\* The object's fields as one record, the argument of every handler.
St ==
    [ board |-> board, player_color |-> player_color,
      game_active |-> game_active, auto_mode |-> auto_mode,
      training_active |-> training_active, training_line |-> training_line,
      training_index |-> training_index,
      training_mode_var |-> training_mode_var, last_move |-> last_move,
      move_stack_for_redo |-> move_stack_for_redo,
      time_white |-> time_white, time_black |-> time_black,
      increment |-> increment, clock_running |-> clock_running,
      clock_job |-> clock_job, tick_jobs |-> tick_jobs,
      auto_job |-> auto_job, auto_jobs |-> auto_jobs,
      manual_jobs |-> manual_jobs, inputs_disabled |-> inputs_disabled,
      stats |-> stats, stockfish_ready |-> stockfish_ready,
      engine_pos |-> engine_pos, threads |-> threads,
      engine_queue |-> engine_queue ]

\* The caps that keep the counters of the model finite.
Bounded(s) ==
    /\ s.time_white <= MaxClock \/ s.time_white = time_white
    /\ s.time_black <= MaxClock \/ s.time_black = time_black
    /\ s.stats.games <= MaxGames
    /\ Len(s.threads) <= MaxThreads
    /\ Len(s.engine_queue) <= MaxQueue
    /\ s.tick_jobs <= MaxTickJobs
    /\ s.auto_jobs <= MaxAutoJobs
    /\ s.manual_jobs <= MaxManualJobs
    /\ Len(s.move_stack_for_redo) <= MaxRedo

\* Write the record a handler returned back to the fields.
Apply(s) ==
    /\ Bounded(s)
    /\ board' = s.board
    /\ player_color' = s.player_color
    /\ game_active' = s.game_active
    /\ auto_mode' = s.auto_mode
    /\ training_active' = s.training_active
    /\ training_line' = s.training_line
    /\ training_index' = s.training_index
    /\ training_mode_var' = s.training_mode_var
    /\ last_move' = s.last_move
    /\ move_stack_for_redo' = s.move_stack_for_redo
    /\ time_white' = s.time_white
    /\ time_black' = s.time_black
    /\ increment' = s.increment
    /\ clock_running' = s.clock_running
    /\ clock_job' = s.clock_job
    /\ tick_jobs' = s.tick_jobs
    /\ auto_job' = s.auto_job
    /\ auto_jobs' = s.auto_jobs
    /\ manual_jobs' = s.manual_jobs
    /\ inputs_disabled' = s.inputs_disabled
    /\ stats' = s.stats
    /\ stockfish_ready' = s.stockfish_ready
    /\ engine_pos' = s.engine_pos
    /\ threads' = s.threads
    /\ engine_queue' = s.engine_queue
    /\ UNCHANGED << training_lines, json_file, fallback, returned >>


\* ---------------------------------------------------------------- helpers
disable_inputs(s, disabled) == [s EXCEPT !.inputs_disabled = disabled]

\* update_board_display ends with update_eval_label -> get_eval_cp, which
\* sends the current move stack to the engine (SafeStockfish.set_position).
update_board_display(s) ==
    IF s.stockfish_ready THEN [s EXCEPT !.engine_pos = s.board] ELSE s

\* --------------------------------------------------------- auto sequencing
stop_auto_game(s) ==
    [s EXCEPT !.auto_mode = FALSE,
              !.auto_jobs = IF s.auto_job THEN @ - 1 ELSE @,
              !.auto_job = FALSE,
              !.inputs_disabled = FALSE]

schedule_next_auto_move(s) ==
    [s EXCEPT !.auto_job = TRUE, !.auto_jobs = @ + 1]

NewThread(kind) == [kind |-> kind, pc |-> "set"]

\* Body of the Tk callback stockfish_move_once_for_auto.
stockfish_move_once_for_auto(s) ==
    IF ~s.stockfish_ready \/ ~s.game_active \/ ~s.auto_mode THEN s
    ELSE [s EXCEPT !.threads = Append(@, NewThread("engine_move_auto"))]

\* Body of the Tk callback stockfish_move_once_for_manual.
stockfish_move_once_for_manual(s) ==
    IF ~s.stockfish_ready \/ ~s.game_active \/ s.auto_mode
    THEN disable_inputs(s, FALSE)
    ELSE [s EXCEPT !.threads = Append(@, NewThread("engine_move_manual"))]

\* self.master.after(.., self.stockfish_move_once_for_manual)
schedule_manual(s) == [s EXCEPT !.manual_jobs = @ + 1]

\* -------------------------------------------------------------------- clock
stop_clock(s) ==
    [s EXCEPT !.clock_running = FALSE,
              !.tick_jobs = IF s.clock_job THEN @ - 1 ELSE @,
              !.clock_job = FALSE]

\* flag_time that records the game but leaves the clock running.
flag_time_ClockKeepsRunning(s, color) ==
    LET s1 == stop_auto_game([s EXCEPT !.game_active = FALSE])
    IN  [s1 EXCEPT !.stats.games = @ + 1]

flag_time(s, color) ==
    LET s1 == stop_clock(stop_auto_game([s EXCEPT !.game_active = FALSE]))
        s2 == [s1 EXCEPT !.stats.games = @ + 1]
    IN  IF ~s2.auto_mode
        THEN IF (color = "white" /\ s2.player_color = WHITE)
                \/ (color = "black" /\ s2.player_color = BLACK)
             THEN [s2 EXCEPT !.stats.losses = @ + 1,
                             !.stats.current_streak = 0,
                             !.stats.last_result = "L"]
             ELSE [s2 EXCEPT !.stats.wins = @ + 1,
                             !.stats.current_streak = @ + 1,
                             !.stats.best_streak =
                                 Max2(@, s2.stats.current_streak + 1),
                             !.stats.last_result = "W"]
        ELSE s2

\* tick_clock charging the side that is not to move.
tick_clock_OtherSide(s) ==
    IF ~s.clock_running \/ ~s.game_active THEN s
    ELSE [s EXCEPT !.time_white = IF turn(s.board) = BLACK
                                  THEN Max2(0, @ - 1) ELSE @,
                   !.time_black = IF turn(s.board) = WHITE
                                  THEN Max2(0, @ - 1) ELSE @,
                   !.clock_job = TRUE, !.tick_jobs = @ + 1]

\* tick_clock charging both sides at once.
tick_clock_BothSides(s) ==
    IF ~s.clock_running \/ ~s.game_active THEN s
    ELSE [s EXCEPT !.time_white = Max2(0, @ - 1),
                   !.time_black = Max2(0, @ - 1),
                   !.clock_job = TRUE, !.tick_jobs = @ + 1]

tick_clock(s) ==
    IF ~s.clock_running \/ ~s.game_active THEN s
    ELSE LET s1 == IF turn(s.board) = WHITE
                   THEN [s EXCEPT !.time_white = Max2(0, @ - 1)]
                   ELSE [s EXCEPT !.time_black = Max2(0, @ - 1)]
             s2 == IF turn(s.board) = WHITE
                   THEN IF s1.time_white = 0 THEN flag_time(s1, "white")
                        ELSE s1
                   ELSE IF s1.time_black = 0 THEN flag_time(s1, "black")
                        ELSE s1
         IN  [s2 EXCEPT !.clock_job = TRUE, !.tick_jobs = @ + 1]

start_clock(s) == tick_clock([s EXCEPT !.clock_running = TRUE])

\* ----------------------------------------------------------------- game end
end_game(s) ==
    LET was_auto == s.auto_mode
        s1 == stop_auto_game(stop_clock([s EXCEPT !.game_active = FALSE]))
        s2 == [s1 EXCEPT !.training_active = FALSE, !.stats.games = @ + 1]
        res == result(s2.board)
    IN  IF ~was_auto
        THEN IF res = "1/2-1/2"
             THEN [s2 EXCEPT !.stats.draws = @ + 1,
                             !.stats.last_result = "D",
                             !.stats.current_streak = 0]
             ELSE IF (res = "1-0" /\ s2.player_color = WHITE)
                     \/ (res = "0-1" /\ s2.player_color = BLACK)
             THEN [s2 EXCEPT !.stats.wins = @ + 1,
                             !.stats.last_result = "W",
                             !.stats.current_streak = @ + 1,
                             !.stats.best_streak =
                                 Max2(@, s2.stats.current_streak + 1)]
             ELSE [s2 EXCEPT !.stats.losses = @ + 1,
                             !.stats.last_result = "L",
                             !.stats.current_streak = 0]
        ELSE s2

resign_game(s, confirm) ==
    IF s.game_active /\ confirm
    THEN LET s1 == stop_auto_game(stop_clock([s EXCEPT !.game_active = FALSE]))
         IN  [s1 EXCEPT !.training_active = FALSE,
                        !.stats.games = @ + 1,
                        !.stats.losses = @ + 1,
                        !.stats.current_streak = 0,
                        !.stats.last_result = "L"]
    ELSE s

\* ----------------------------------------------------------------- training
reset_training_state(s) ==
    [s EXCEPT !.training_line = << >>, !.training_index = 0,
              !.training_active = FALSE]

\* preview_board.parse_san(san) raises ValueError for a move that is not
\* legal on the preview board: the replay of the line succeeds iff every
\* move is legal at its place.
RECURSIVE LineParses(_, _)
LineParses(preview, sans) ==
    IF sans = << >> THEN TRUE
    ELSE /\ Head(sans) \in legal_moves(preview)
         /\ LineParses(Append(preview, Head(sans)), Tail(sans))

\* Returns the new fields; the line is ready iff training_active is set.
initialize_training_line(s, name) ==
    LET s1 == reset_training_state(s)
        moves_san == get_moves(name)
    IN  IF moves_san = << >> THEN s1
        ELSE IF ~LineParses(<< >>, moves_san) THEN s1
        ELSE [s1 EXCEPT !.training_line = moves_san,
                        !.training_index = 0,
                        !.training_active = TRUE]

\* finish_training_mode that never hands the move over to the engine.
finish_training_mode_NoHandover(s, success) ==
    IF ~s.training_active THEN s
    ELSE [s EXCEPT !.training_active = FALSE]

finish_training_mode(s, success) ==
    IF ~s.training_active THEN s
    ELSE LET s1 == [s EXCEPT !.training_active = FALSE]
         IN  IF success /\ s1.stockfish_ready /\ ~is_game_over(s1.board)
                /\ ~s1.auto_mode /\ turn(s1.board) # s1.player_color
             THEN schedule_manual(s1)
             ELSE s1

\* The while loop of play_training_moves_until_player_turn; "returned" tells
\* that the loop left the method through its return statement.
RECURSIVE TrainingLoop(_)
TrainingLoop(s) ==
    IF s.training_active /\ s.training_index < Len(s.training_line)
       /\ turn(s.board) # s.player_color
    THEN LET expected == s.training_line[s.training_index + 1]
         IN  IF expected \notin legal_moves(s.board)
             THEN [st |-> finish_training_mode(s, FALSE), returned |-> TRUE]
             ELSE LET s1 == IF s.increment > 0
                            THEN IF turn(s.board) = WHITE
                                 THEN [s EXCEPT !.time_white = @ + s.increment]
                                 ELSE [s EXCEPT !.time_black = @ + s.increment]
                            ELSE s
                  IN  TrainingLoop([s1 EXCEPT !.board = Append(@, expected),
                                              !.last_move = expected,
                                              !.training_index = @ + 1])
    ELSE [st |-> s, returned |-> FALSE]

play_training_moves_until_player_turn(s) ==
    IF ~s.training_active THEN s
    ELSE LET r == TrainingLoop(s)
         IN  IF r.returned THEN r.st
             ELSE LET s1 == update_board_display(r.st)
                  IN  IF s1.training_active
                         /\ (is_game_over(s1.board)
                             \/ s1.training_index >= Len(s1.training_line))
                      THEN finish_training_mode(s1, TRUE)
                      ELSE s1

\* ------------------------------------------------------------- human moves
\* make_move after the training check accepted the move.
CommitMove(s, move, training_player_move) ==
    LET s1 == IF turn(s.board) = WHITE /\ s.increment > 0
              THEN [s EXCEPT !.time_white = @ + s.increment]
              ELSE IF turn(s.board) = BLACK /\ s.increment > 0
              THEN [s EXCEPT !.time_black = @ + s.increment]
              ELSE s
        s2 == [s1 EXCEPT !.board = Append(@, move),
                         !.last_move = move,
                         !.move_stack_for_redo = << >>]
        s3 == IF training_player_move
              THEN [s2 EXCEPT !.training_index = @ + 1] ELSE s2
        s4 == update_board_display(s3)
    IN  IF s4.training_active
        THEN IF is_game_over(s4.board) THEN finish_training_mode(s4, TRUE)
             ELSE LET s5 == play_training_moves_until_player_turn(s4)
                  IN  IF s5.training_active THEN disable_inputs(s5, FALSE)
                      ELSE s5
        ELSE IF is_game_over(s4.board) THEN end_game(s4)
        ELSE IF turn(s4.board) # s4.player_color
             THEN schedule_manual(disable_inputs(s4, TRUE))
             ELSE disable_inputs(s4, FALSE)

\* make_move without the comparison against the line's expected move.
make_move_AnyLegalMove(s, move) == CommitMove(s, move, s.training_active)

\* make_move with an off-line training move skipped over instead of refused.
make_move_SkipOffLine(s, move) ==
    IF s.training_active /\ turn(s.board) = s.player_color
       /\ s.training_index < Len(s.training_line)
       /\ move # s.training_line[s.training_index + 1]
    THEN [s EXCEPT !.training_index = @ + 1]
    ELSE make_move_AnyLegalMove(s, move)

make_move(s, move) ==
    IF s.training_active /\ turn(s.board) = s.player_color
    THEN IF s.training_index >= Len(s.training_line)
         THEN LET s1 == finish_training_mode(s, TRUE)
              IN  IF s1.stockfish_ready /\ ~is_game_over(s1.board)
                     /\ ~s1.auto_mode /\ turn(s1.board) # s1.player_color
                  THEN schedule_manual(s1)
                  ELSE s1
         ELSE IF move # s.training_line[s.training_index + 1] THEN s
         ELSE CommitMove(s, move, TRUE)
    ELSE CommitMove(s, move, FALSE)

\* on_canvas_click with a square selected and a click on a target square:
\* the two squares make the move mv.
on_canvas_click(s, mv) ==
    IF ~s.game_active \/ s.auto_mode THEN s
    ELSE IF turn(s.board) # s.player_color THEN s
    ELSE update_board_display(IF mv \in legal_moves(s.board)
                              THEN make_move(s, mv) ELSE s)

\* ---------------------------------------------------------------- undo/redo
undo_move(s) ==
    IF s.board = << >> \/ s.auto_mode THEN s
    ELSE LET mv == Top(s.board)
             b  == Pop(s.board)
         IN  update_board_display(
                 [s EXCEPT !.board = b,
                           !.move_stack_for_redo = Append(@, mv),
                           !.last_move = IF b # << >> THEN Top(b) ELSE None])

\* redo_move that leaves the replayed move on the redo stack.
redo_move_KeepStack(s) ==
    IF s.move_stack_for_redo = << >> \/ s.auto_mode THEN s
    ELSE LET mv == Top(s.move_stack_for_redo)
         IN  IF mv \in legal_moves(s.board)
             THEN update_board_display([s EXCEPT !.board = Append(@, mv),
                                                 !.last_move = mv])
             ELSE s

\* redo_move that empties the redo stack when the popped move is refused.
redo_move_ClearOnReject(s) ==
    IF s.move_stack_for_redo = << >> \/ s.auto_mode THEN s
    ELSE LET mv == Top(s.move_stack_for_redo)
         IN  IF mv \in legal_moves(s.board)
             THEN update_board_display(
                      [s EXCEPT !.move_stack_for_redo = Pop(@),
                                !.board = Append(@, mv),
                                !.last_move = mv])
             ELSE [s EXCEPT !.move_stack_for_redo = << >>]

redo_move(s) ==
    IF s.move_stack_for_redo = << >> \/ s.auto_mode THEN s
    ELSE LET mv == Top(s.move_stack_for_redo)
             s1 == [s EXCEPT !.move_stack_for_redo = Pop(@)]
         IN  IF mv \in legal_moves(s1.board)
             THEN update_board_display([s1 EXCEPT !.board = Append(@, mv),
                                                  !.last_move = mv])
             ELSE s1

\* ------------------------------------------------------------- engine queue
\* The increment is added before the move is looked up in legal_moves.
AddIncrement(s) ==
    IF turn(s.board) = WHITE /\ s.increment > 0
    THEN [s EXCEPT !.time_white = @ + s.increment]
    ELSE IF turn(s.board) = BLACK /\ s.increment > 0
    THEN [s EXCEPT !.time_black = @ + s.increment]
    ELSE s

\* One pass of the while loop of process_engine_queue on the message msg.
HandleMessage(s, msg) ==
    IF msg.kind = "engine_move_manual"
    THEN LET s1 == AddIncrement(s)
         IN  IF msg.payload \in legal_moves(s1.board)
             THEN LET s2 == disable_inputs(
                                update_board_display(
                                    [s1 EXCEPT !.board = Append(@, msg.payload),
                                               !.last_move = msg.payload]),
                                FALSE)
                  IN  IF is_game_over(s2.board) THEN end_game(s2) ELSE s2
             ELSE disable_inputs(s1, FALSE)
    ELSE IF msg.kind = "engine_move_auto"
    THEN LET s1 == AddIncrement(s)
         IN  IF msg.payload \in legal_moves(s1.board)
             THEN LET s2 == update_board_display(
                                [s1 EXCEPT !.board = Append(@, msg.payload),
                                           !.last_move = msg.payload])
                  IN  IF is_game_over(s2.board) \/ ~s2.auto_mode
                      THEN end_game(stop_auto_game(s2))
                      ELSE schedule_next_auto_move(s2)
             ELSE stop_auto_game(s1)
    ELSE \* "engine_error"
         stop_auto_game(disable_inputs(s, FALSE))

\* get_nowait() until queue.Empty.
RECURSIVE process_engine_queue(_)
process_engine_queue(s) ==
    IF s.engine_queue = << >> THEN s
    ELSE process_engine_queue(
             HandleMessage([s EXCEPT !.engine_queue = Tail(@)],
                           Head(s.engine_queue)))

\* ---------------------------------------------------------------- new games
start_new_game(s, color_var, time_minutes_var, increment_var, selected_opening) ==
    LET training_requested ==
            s.training_mode_var /\ get_moves(selected_opening) # << >>
    IN  IF ~s.stockfish_ready /\ ~training_requested THEN s
        ELSE
        LET s0 == IF s.auto_mode THEN stop_auto_game(s) ELSE s
            mins == clamp(time_minutes_var, ClampMinLo, ClampMinHi)
            s1 == [s0 EXCEPT !.time_white = mins * SecPerMin,
                             !.time_black = mins * SecPerMin,
                             !.increment = clamp(increment_var, ClampIncLo, ClampIncHi),
                             !.board = << >>,
                             !.game_active = TRUE,
                             !.auto_mode = FALSE,
                             !.player_color =
                                 IF color_var = "white" THEN WHITE ELSE BLACK,
                             !.last_move = None,
                             !.move_stack_for_redo = << >>]
            s2 == reset_training_state(s1)
            s3 == IF training_requested
                  THEN LET i == initialize_training_line(s2, selected_opening)
                       IN  IF i.training_active THEN i
                           ELSE [i EXCEPT !.training_mode_var = FALSE]
                  ELSE s2
            s4 == start_clock(
                      disable_inputs(update_board_display(s3), FALSE))
        IN  IF s3.training_active
            THEN play_training_moves_until_player_turn(s4)
            ELSE IF s4.player_color = BLACK THEN schedule_manual(s4)
            ELSE s4

start_auto_game(s, time_minutes_var, increment_var) ==
    IF ~s.stockfish_ready THEN s
    ELSE
    LET mins == clamp(time_minutes_var, ClampMinLo, ClampMinHi)
        s1 == [s EXCEPT !.time_white = mins * SecPerMin,
                        !.time_black = mins * SecPerMin,
                        !.increment = clamp(increment_var, ClampIncLo, ClampIncHi),
                        !.board = << >>,
                        !.game_active = TRUE,
                        !.auto_mode = TRUE,
                        !.last_move = None,
                        !.move_stack_for_redo = << >>]
    IN  schedule_next_auto_move(
            start_clock(
                disable_inputs(update_board_display(s1), TRUE)))

\* on_training_toggle after the check box took the value checked.
on_training_toggle(s, checked) ==
    LET s1 == [s EXCEPT !.training_mode_var = checked]
    IN  IF ~checked THEN reset_training_state(s1) ELSE s1

\* ------------------------------------------------------------ initial state
DefaultMinutes == 5

InitFields ==
    /\ board = << >>
    /\ player_color = WHITE
    /\ game_active = FALSE
    /\ auto_mode = FALSE
    /\ training_active = FALSE
    /\ training_line = << >>
    /\ training_index = 0
    /\ training_mode_var = FALSE
    /\ last_move = None
    /\ move_stack_for_redo = << >>
    /\ time_white = DefaultMinutes * SecPerMin
    /\ time_black = DefaultMinutes * SecPerMin
    /\ increment = 0
    /\ clock_running = FALSE
    /\ clock_job = FALSE
    /\ tick_jobs = 0
    /\ auto_job = FALSE
    /\ auto_jobs = 0
    /\ manual_jobs = 0
    /\ inputs_disabled = FALSE
    /\ stats = [games |-> 0, wins |-> 0, losses |-> 0, draws |-> 0,
                best_streak |-> 0, current_streak |-> 0, last_result |-> ""]
    /\ stockfish_ready \in BOOLEAN
    /\ engine_pos = << >>
    /\ threads = << >>
    /\ engine_queue = << >>

\* The window with a catalogue that carries training lines; no call of the
\* loader is followed.
Init ==
    /\ InitFields
    /\ training_lines = TrainingCatalogue
    /\ json_file = FileError("missing")
    /\ fallback = PyNone
    /\ returned = PyNone

\* ------------------------------------------------------------------ actions
\* Key "n" or the start button.
StartNewGameWith(incs, openings) ==
    \E color_var \in {"white", "black"}, tm \in TimeMinutesChoices,
       inc \in incs, opening \in openings :
        Apply(start_new_game(St, color_var, tm, inc, opening))

StartNewGame == StartNewGameWith(IncrementChoices, OpeningNames)

\* Key "a" or the auto start button.
StartAutoGameWith(incs) ==
    \E tm \in TimeMinutesChoices, inc \in incs :
        Apply(start_auto_game(St, tm, inc))

StartAutoGame == StartAutoGameWith(IncrementChoices)

\* Key "s" or the auto stop button.
StopAutoGame == Apply(stop_auto_game(St))

\* The resign button, when disable_inputs left it enabled.
ResignGame ==
    /\ ~inputs_disabled
    /\ \E confirm \in BOOLEAN : Apply(resign_game(St, confirm))

CanvasClick == \E mv \in Moves : Apply(on_canvas_click(St, mv))

UndoMove == Apply(undo_move(St))

RedoMove == Apply(redo_move(St))

TrainingToggle == Apply(on_training_toggle(St, ~training_mode_var))

\* A pending tick callback runs: the one self.clock_job names, or an older
\* one that was never cancelled.
TickFires ==
    \E named \in BOOLEAN :
        /\ IF named THEN clock_job
           ELSE tick_jobs > (IF clock_job THEN 1 ELSE 0)
        /\ Apply(tick_clock([St EXCEPT !.tick_jobs = @ - 1,
                                       !.clock_job = IF named THEN FALSE ELSE @]))

AutoJobFires ==
    \E named \in BOOLEAN :
        /\ IF named THEN auto_job
           ELSE auto_jobs > (IF auto_job THEN 1 ELSE 0)
        /\ Apply(stockfish_move_once_for_auto(
                     [St EXCEPT !.auto_jobs = @ - 1,
                                !.auto_job = IF named THEN FALSE ELSE @]))

ManualJobFires ==
    /\ manual_jobs > 0
    /\ Apply(stockfish_move_once_for_manual([St EXCEPT !.manual_jobs = @ - 1]))

\* The periodic poll of the queue (every 100 ms) when it holds a response.
ProcessEngineQueue ==
    /\ engine_queue # << >>
    /\ Apply(process_engine_queue(St))

RemoveAt(seq, i) == SubSeq(seq, 1, i - 1) \o SubSeq(seq, i + 1, Len(seq))

\* [m.uci() for m in self.board.move_stack], evaluated by the thread when it
\* runs.
engine_task_position(s) == s.board

\* engine_task, first half: set_elo_rating, then set_position with the move
\* stack as it is when the thread reads it.
ThreadSetPosition ==
    \E i \in DOMAIN threads :
        /\ threads[i].pc = "set"
        /\ Apply([St EXCEPT !.engine_pos = IF stockfish_ready
                                           THEN engine_task_position(St) ELSE @,
                            !.threads[i].pc = "best"])

\* engine_task, second half: get_best_move answers for the position the
\* engine holds now; a move is queued, no move is dropped, an exception is
\* queued as engine_error.
ThreadBestMove ==
    \E i \in DOMAIN threads :
        /\ threads[i].pc = "best"
        /\ \E out \in legal_moves(engine_pos) \cup {None, "error"} :
              Apply([St EXCEPT
                  !.threads = RemoveAt(@, i),
                  !.engine_queue =
                      IF out = None THEN @
                      ELSE IF out = "error"
                      THEN Append(@, [kind |-> "engine_error", payload |-> None])
                      ELSE Append(@, [kind |-> threads[i].kind, payload |-> out])])

Next ==
    \/ StartNewGame
    \/ StartAutoGame
    \/ StopAutoGame
    \/ ResignGame
    \/ CanvasClick
    \/ UndoMove
    \/ RedoMove
    \/ TrainingToggle
    \/ TickFires
    \/ AutoJobFires
    \/ ManualJobFires
    \/ ProcessEngineQueue
    \/ ThreadSetPosition
    \/ ThreadBestMove

Spec == Init /\ [][Next]_vars

\* ------------------------------------------------- scoped specifications
\* Requests to the engine on their way: scheduled callbacks, running threads
\* and responses not yet polled.
InFlight == manual_jobs + auto_jobs + Len(threads) + Len(engine_queue)

\* One request at a time and one recorded game.
OneRequest == InFlight <= 1 /\ stats.games <= 1
InOneRequest(A) == A /\ OneRequest'

\* Two requests at a time and one recorded game.
TwoRequests == InFlight <= 2 /\ stats.games <= 1
InTwoRequests(A) == A /\ TwoRequests'

\* Play against the engine, free or along a training line, with no increment;
\* the Auto buttons are left alone.
NextPlay ==
    \/ InOneRequest(StartNewGameWith({0}, OpeningNames))
    \/ InOneRequest(TrainingToggle)
    \/ InOneRequest(ResignGame)
    \/ InOneRequest(CanvasClick)
    \/ InOneRequest(UndoMove)
    \/ InOneRequest(RedoMove)
    \/ InOneRequest(TickFires)
    \/ InOneRequest(ManualJobFires)
    \/ InOneRequest(ProcessEngineQueue)
    \/ InOneRequest(ThreadSetPosition)
    \/ InOneRequest(ThreadBestMove)

SpecPlay == Init /\ [][NextPlay]_vars

\* Engine against engine, with the start, stop and resign buttons.
NextAuto ==
    \/ InTwoRequests(StartAutoGameWith({0}))
    \/ InTwoRequests(StopAutoGame)
    \/ InTwoRequests(ResignGame)
    \/ InTwoRequests(TickFires)
    \/ InTwoRequests(AutoJobFires)
    \/ InTwoRequests(ProcessEngineQueue)
    \/ InTwoRequests(ThreadSetPosition)
    \/ InTwoRequests(ThreadBestMove)

SpecAuto == Init /\ [][NextAuto]_vars

\* Everything the window offers, with no increment, free or along the line
\* "Ligne".
NextSession ==
    \/ InOneRequest(StartNewGameWith({0}, {"Libre", "Ligne"}))
    \/ InOneRequest(StartAutoGameWith({0}))
    \/ InOneRequest(StopAutoGame)
    \/ InOneRequest(TrainingToggle)
    \/ InOneRequest(ResignGame)
    \/ InOneRequest(CanvasClick)
    \/ InOneRequest(UndoMove)
    \/ InOneRequest(RedoMove)
    \/ InOneRequest(TickFires)
    \/ InOneRequest(AutoJobFires)
    \/ InOneRequest(ManualJobFires)
    \/ InOneRequest(ProcessEngineQueue)
    \/ InOneRequest(ThreadSetPosition)
    \/ InOneRequest(ThreadBestMove)

SpecSession == Init /\ [][NextSession]_vars

\* Everything the window offers, with an increment of one tick and no
\* training line.
NextIncrement ==
    \/ InOneRequest(StartNewGameWith({1}, {"Libre"}))
    \/ InOneRequest(StartAutoGameWith({1}))
    \/ InOneRequest(StopAutoGame)
    \/ InOneRequest(TrainingToggle)
    \/ InOneRequest(ResignGame)
    \/ InOneRequest(CanvasClick)
    \/ InOneRequest(UndoMove)
    \/ InOneRequest(RedoMove)
    \/ InOneRequest(TickFires)
    \/ InOneRequest(AutoJobFires)
    \/ InOneRequest(ManualJobFires)
    \/ InOneRequest(ProcessEngineQueue)
    \/ InOneRequest(ThreadSetPosition)
    \/ InOneRequest(ThreadBestMove)

SpecIncrement == Init /\ [][NextIncrement]_vars

\* ------------------------------------------------------------------- claims
\* C1: a response whose request was issued before a Stop, a Resign, a game
\* end or a new start is discarded when process_engine_queue drains the
\* queue: the drain leaves the board unchanged.  Threads are started only
\* while game_active holds, so once no game is active every response still
\* in the queue was requested before the game ended; the drain is the step
\* that empties the queue.
C1_StaleResponseDiscarded ==
    [][(~game_active /\ engine_queue # << >> /\ engine_queue' = << >>)
           => board' = board]_vars

\* The fields a rejected submission must leave alone.
SameGame(r) ==
    /\ r.board = board
    /\ r.last_move = last_move
    /\ r.move_stack_for_redo = move_stack_for_redo
    /\ r.time_white = time_white
    /\ r.time_black = time_black

Accepted(mv) ==
    /\ game_active /\ ~auto_mode
    /\ turn(board) = player_color
    /\ mv \in legal_moves(board)
    /\ training_active =>
           /\ training_index < Len(training_line)
           /\ mv = training_line[training_index + 1]

C3_UndoRedoRoundTrip ==
    (~auto_mode /\ board # << >>) =>
        LET r == redo_move(undo_move(St))
        IN  /\ r.board = board
            /\ r.last_move = last_move
            /\ r.move_stack_for_redo = move_stack_for_redo

\* A position with moves played and moves waiting on the redo stack, where
\* Undo takes a move back and Redo replays it.
C3_Witness ==
    /\ ~auto_mode /\ Len(board) >= 2 /\ move_stack_for_redo # << >>
    /\ undo_move(St).board = Pop(board)
    /\ Len(undo_move(St).move_stack_for_redo) = Len(move_stack_for_redo) + 1
    /\ redo_move(undo_move(St)).board = board

StepInSession ==
    \/ StopAutoGame
    \/ TrainingToggle
    \/ ResignGame
    \/ CanvasClick
    \/ UndoMove
    \/ RedoMove
    \/ TickFires
    \/ AutoJobFires
    \/ ManualJobFires
    \/ ProcessEngineQueue
    \/ ThreadSetPosition
    \/ ThreadBestMove

\* C5: within a session, no step (tick, committed ply with its increment,
\* rejected move, undo, redo, engine response) lowers the remaining time of
\* the side that is not to move when the step begins.
C5_SideNotToMoveKeepsTime ==
    [][\/ /\ turn(board) = WHITE => time_black' >= time_black
          /\ turn(board) = BLACK => time_white' >= time_white
       \/ ~StepInSession]_vars

\* A game with increment in which White has committed a ply and Black's
\* clock has been charged on Black's turn.
C5_Witness ==
    /\ game_active /\ increment > 0
    /\ board # << >> /\ turn(board) = BLACK
    /\ time_black < time_white

\* The classification of end_game's table for a game that ends with result
\* res, played in Auto (auto) or not, by a human of colour color.
Classify(res, auto, color) ==
    IF auto THEN "auto"
    ELSE IF res = "1/2-1/2" THEN "D"
    ELSE IF (res = "1-0" /\ color = WHITE) \/ (res = "0-1" /\ color = BLACK)
    THEN "W"
    ELSE "L"

\* What a step recorded, read off the counters.
RecordedAs ==
    IF stats'.wins = stats.wins + 1 THEN "W"
    ELSE IF stats'.losses = stats.losses + 1 THEN "L"
    ELSE IF stats'.draws = stats.draws + 1 THEN "D"
    ELSE "auto"

\* A step that commits a ply, finds the position terminal and ends the game.
EndsOnTerminalPly ==
    /\ game_active /\ ~game_active'
    /\ Len(board') = Len(board) + 1 /\ is_game_over(board')
    /\ stats'.games = stats.games + 1

\* C6: the classification recorded when a game ends on a terminal position
\* is the one the table gives for the board's result, the mode the game was
\* played in (Auto or not, as the step begins) and the human's colour; a
\* game played in Auto gets the neutral label and touches no counter but
\* "games".
C6_ClassificationIsFunction ==
    [][EndsOnTerminalPly =>
           RecordedAs = Classify(result(board'), auto_mode, player_color)]_vars

\* Requests of the Auto sequence on their way: the scheduled callbacks, the
\* running threads and the responses not yet polled.
AutoThreads == {i \in DOMAIN threads : threads[i].kind = "engine_move_auto"}
AutoResponses ==
    {i \in DOMAIN engine_queue : engine_queue[i].kind = "engine_move_auto"}
AutoOutstanding ==
    auto_jobs + Cardinality(AutoThreads) + Cardinality(AutoResponses)

\* C7: in Auto mode at most one request is outstanding, scheduled, running
\* or answered and not yet polled.
C7_AutoSingleFlight == auto_mode => AutoOutstanding <= 1

\* C8: Stop (in an Auto game) and Resign (confirmed, in an active game) each
\* leave the session not active with the clock stopped.
C8_StopAndResignEndSession ==
    [][(\/ auto_mode /\ game_active /\ StopAutoGame
        \/ game_active /\ ~inputs_disabled /\ Apply(resign_game(St, TRUE)))
           => (~game_active' /\ ~clock_running')]_vars

C11_AttemptDeliversResponse ==
    [][Len(threads') < Len(threads)
           => Len(engine_queue') = Len(engine_queue) + 1]_vars

C14_CommitClearsRedo ==
    [][\/ move_stack_for_redo' = << >>
       \/ Len(board') <= Len(board)
       \/ RedoMove]_vars

\* Board, last move and redo stack of r are those of the current state.
SamePosition(r) ==
    /\ r.board = board
    /\ r.last_move = last_move
    /\ r.move_stack_for_redo = move_stack_for_redo

Untouched(r) ==
    /\ SamePosition(r)
    /\ r.time_white = time_white
    /\ r.time_black = time_black
    /\ r.training_index = training_index
    /\ r.training_active = training_active

\* A legal move of the human's turn that is not the move the active training
\* line expects at its cursor.
OffLine(mv) ==
    /\ game_active /\ ~auto_mode
    /\ turn(board) = player_color
    /\ mv \in legal_moves(board)
    /\ training_active
    /\ training_index < Len(training_line)
    /\ mv # training_line[training_index + 1]

MoverTime(r) == IF turn(r.board) = WHITE THEN r.time_white ELSE r.time_black

\* A tick in the current state leaves the side to move without time.
TickFlags ==
    /\ clock_running /\ game_active
    /\ MoverTime([tick_clock(St) EXCEPT !.board = board]) = 0

\* C17: a tick that brings the side to move to 0 seconds ends the game and
\* stops the clock, and from then on no step takes a second from either side
\* until a new game is started.
C17_FlagFallStopsClock ==
    /\ [](TickFlags => (~tick_clock(St).game_active
                        /\ ~tick_clock(St).clock_running))
    /\ [][\/ game_active
          \/ time_white' >= time_white /\ time_black' >= time_black
          \/ StartNewGame \/ StartAutoGame]_vars

\* The flag has fallen and a tick callback is still scheduled.
C17_Witness ==
    /\ ~game_active /\ ~clock_running
    /\ tick_jobs > 0
    /\ MoverTime(St) = 0

\* Remaining seconds of the side that is not to move on the board of r.
WaiterTime(r) == IF turn(r.board) = WHITE THEN r.time_black ELSE r.time_white

\* C18: neither side's remaining time is ever negative, and one tick of a
\* running clock takes exactly one second from the side to move, or leaves
\* it at 0 when it is already 0; the other side's time is unchanged, and a
\* tick of a stopped clock changes neither.
C18_TickTakesOneSecondFromMover ==
    /\ time_white >= 0 /\ time_black >= 0
    /\ LET r == [tick_clock(St) EXCEPT !.board = board]
       IN  /\ WaiterTime(r) = WaiterTime(St)
           /\ MoverTime(r) = IF clock_running /\ game_active /\ MoverTime(St) > 0
                             THEN MoverTime(St) - 1
                             ELSE MoverTime(St)

\* Black is to move with one second left after an earlier tick, and the next
\* tick takes it.
C18_Witness ==
    /\ game_active /\ clock_running
    /\ turn(board) = BLACK /\ time_black = 1
    /\ tick_clock(St).time_black = 0
    /\ tick_clock(St).time_white = time_white

\* Free manual games and Auto games following one another, with no increment
\* and at most two engine requests alive.
NextSwitch ==
    \/ InTwoRequests(StartNewGameWith({0}, {"Libre"}))
    \/ InTwoRequests(StartAutoGameWith({0}))
    \/ InTwoRequests(StopAutoGame)
    \/ InTwoRequests(CanvasClick)
    \/ InTwoRequests(TickFires)
    \/ InTwoRequests(AutoJobFires)
    \/ InTwoRequests(ManualJobFires)
    \/ InTwoRequests(ProcessEngineQueue)
    \/ InTwoRequests(ThreadSetPosition)
    \/ InTwoRequests(ThreadBestMove)

SpecSwitch == Init /\ [][NextSwitch]_vars

\* The response at the head of the engine queue carries a move that is not
\* legal on the board.
IllegalResponse ==
    /\ engine_queue # << >>
    /\ Head(engine_queue).kind \in {"engine_move_manual", "engine_move_auto"}
    /\ Head(engine_queue).payload \notin legal_moves(board)

\* C19: draining an engine response whose move is not legal on the board
\* leaves board and last move unchanged, and in Auto mode it stops the
\* automatic sequencing: Auto is off, no automatic request is scheduled and
\* no thread is started.
C19_IllegalResponseStopsAuto ==
    IllegalResponse =>
        LET r == HandleMessage([St EXCEPT !.engine_queue = Tail(@)],
                               Head(engine_queue))
        IN  /\ r.board = board
            /\ r.last_move = last_move
            /\ auto_mode => /\ ~r.auto_mode
                            /\ ~r.auto_job
                            /\ r.threads = threads

\* C20: outside Auto, Redo takes the top move off the redo stack and replays
\* it only if it is legal on the board; a move that is not legal is dropped
\* with board and last move unchanged, and in both cases the entries below
\* the top stay on the stack.
C20_RedoRevalidatesTop ==
    (~auto_mode /\ move_stack_for_redo # << >>) =>
        LET mv == Top(move_stack_for_redo)
            r  == redo_move(St)
        IN  /\ r.move_stack_for_redo = Pop(move_stack_for_redo)
            /\ IF mv \in legal_moves(board)
               THEN r.board = Append(board, mv) /\ r.last_move = mv
               ELSE r.board = board /\ r.last_move = last_move

\* Two moves wait on the redo stack and the top one is not legal on the
\* board; Redo drops it and keeps the one below.
C20_Witness ==
    /\ ~auto_mode
    /\ Len(move_stack_for_redo) >= 2
    /\ Top(move_stack_for_redo) \notin legal_moves(board)
    /\ redo_move(St).board = board
    /\ Len(redo_move(St).move_stack_for_redo) = Len(move_stack_for_redo) - 1

\* A step that plays the active training line to its end and leaves a game
\* that is still active and not over.
LineExhausted ==
    /\ training_active
    /\ training_line' = training_line
    /\ training_index < Len(training_line)
    /\ training_index' >= Len(training_line)
    /\ game_active' /\ ~is_game_over(board')

\* Training is over with its line played out: every legal move of the human's
\* turn is committed as it is.
FreeAfterLine ==
    (/\ ~training_active /\ training_line # << >>
     /\ training_index >= Len(training_line)
     /\ game_active /\ ~auto_mode /\ turn(board) = player_color)
        => \A mv \in legal_moves(board) :
               on_canvas_click(St, mv).board = Append(board, mv)

OnLineClick(mv) ==
    /\ game_active /\ ~auto_mode
    /\ turn(board) = player_color
    /\ training_active
    /\ training_index < Len(training_line)
    /\ mv = training_line[training_index + 1]
    /\ mv \in legal_moves(board)

OneVariation(id, moves) ==
    LET obj(n) == IF id = 0 THEN 0 ELSE id + n
    IN  PyDict(obj(0), <<"variations">>,
               << PyList(obj(1),
                         << PyDict(obj(2), <<"name", "moves">>,
                                   << PyStr("Principale"),
                                      PyList(obj(3), [i \in DOMAIN moves |->
                                                         PyStr(moves[i])]) >>) >>) >>)

\* Contents of the openings file.
FileCases ==
    << FileError("missing"),
       FileError("unreadable"),
       FileError("invalid"),
       FileJson(PyList(0, << >>)),
       FileJson(PyStr("Ligne")),
       FileJson(PyDict(0, << >>, << >>)),
       FileJson(PyDict(0, <<"Ligne">>, << OneVariation(0, <<"a", "b", "a">>) >>)),
       FileJson(PyDict(0, <<"Ligne">>,
                       << PyDict(0, <<"moves">>, << SanList(<<"a", "b", "a">>) >>) >>)),
       FileJson(PyDict(0, <<"Ligne">>, << PyStr("a b a") >>)),
       FileJson(PyDict(0, <<"Ligne">>,
                       << PyDict(0, <<"variations">>, << PyStr("a b a") >>) >>)),
       FileJson(PyDict(0, <<"Ligne">>,
                       << PyDict(0, <<"variations">>,
                                 << PyList(0, << PyNum(1) >>) >>) >>)),
       FileJson(PyDict(0, <<"Ligne">>,
                       << PyDict(0, <<"variations">>,
                                 << PyList(0, << PyDict(0, <<"moves">>,
                                                        << PyStr("a b a") >>) >>) >>) >>)),
       FileJson(PyDict(0, <<"Libre", "Ligne">>,
                       << PyDict(0, <<"variations">>, << PyList(0, << >>) >>),
                          PyDict(0, <<"variations">>,
                                 << PyList(0, << PyNone,
                                                 SanList(<<"a", "b", "a">>) >>) >>) >>)),
       FileJson(PyDict(0, <<"Mat">>,
                       << PyDict(0, <<"variations", "description",
                                      "recommended_color">>,
                                 << PyList(0, << PyDict(0, <<"name", "moves">>,
                                                        << PyStr(" "),
                                                           PyList(0, << PyStr("a"),
                                                                        PyNum(1) >>) >>) >>),
                                    PyNum(5), PyNum(1) >>) >>)) >>

\* Values of the fallback argument: none, an empty dict, dicts of openings.
FallbackCases ==
    << PyNone,
       PyDict(1, << >>, << >>),
       PyDict(1, <<"Secours">>, << OneVariation(2, <<"a", "b">>) >>),
       PyDict(1, <<"Secours", "Libre">>,
              << OneVariation(2, <<"a", "b">>),
                 PyDict(6, <<"variations">>, << PyList(7, << >>) >>) >>) >>

\* No dict of the value has received the key "mutated" and no list of it an
\* appended None.
RECURSIVE Pristine(_)
Pristine(value) ==
    IF value.t = "dict"
    THEN /\ \A i \in DOMAIN value.k : value.k[i] # "mutated"
         /\ \A i \in DOMAIN value.v : Pristine(value.v[i])
    ELSE IF value.t = "list"
    THEN \A i \in DOMAIN value.l :
             value.l[i].t # "null" /\ Pristine(value.l[i])
    ELSE TRUE

InitLoad ==
    /\ InitFields
    /\ \E i \in DOMAIN FileCases : json_file = FileCases[i]
    /\ \E i \in DOMAIN FallbackCases : fallback = FallbackCases[i]
    /\ training_lines = load_default_openings(json_file)
    /\ returned = PyNone

\* A caller runs load_training_openings(json_path, fallback).
LoadOpenings ==
    /\ returned = PyNone
    /\ returned' = load_training_openings(json_file, fallback)
    /\ UNCHANGED << training_lines, json_file, fallback >>
    /\ UNCHANGED << board, player_color, game_active, auto_mode,
                    training_active, training_line, training_index,
                    training_mode_var, last_move, move_stack_for_redo,
                    time_white, time_black, increment, clock_running,
                    clock_job, tick_jobs, auto_job, auto_jobs, manual_jobs,
                    inputs_disabled, stats, stockfish_ready, engine_pos,
                    threads, engine_queue >>

\* The caller mutates in place one object of the returned value; every value
\* that holds the same object reads the mutation.
MutateReturned ==
    /\ returned # PyNone
    /\ Pristine(returned)
    /\ \E id \in Ids(returned) :
           /\ returned' = Mutated(returned, id)
           /\ fallback' = Mutated(fallback, id)
    /\ UNCHANGED << training_lines, json_file >>
    /\ UNCHANGED << board, player_color, game_active, auto_mode,
                    training_active, training_line, training_index,
                    training_mode_var, last_move, move_stack_for_redo,
                    time_white, time_black, increment, clock_running,
                    clock_job, tick_jobs, auto_job, auto_jobs, manual_jobs,
                    inputs_disabled, stats, stockfish_ready, engine_pos,
                    threads, engine_queue >>

NextLoad ==
    \/ LoadOpenings
    \/ MutateReturned

SpecLoad == InitLoad /\ [][NextLoad]_vars

\* An entry of the file that is not an opening definition: not an object, its
\* variations not a list, a variation that is neither a list nor an object,
\* or moves that are not a list.
MalformedEntry(entry) ==
    \/ entry.t # "dict"
    \/ LET vs == Get(entry, "variations", PyNone)
       IN  \/ vs.t \notin {"null", "list"}
           \/ /\ vs.t = "list"
              /\ \E i \in DOMAIN vs.l :
                    \/ vs.l[i].t \notin {"null", "list", "dict"}
                    \/ /\ vs.l[i].t = "dict"
                       /\ Get(vs.l[i], "moves", PyNone).t \notin {"null", "list"}

\* The file is missing, unreadable, not valid JSON, not a JSON object, or
\* holds a malformed entry.
Unusable(file) ==
    \/ file.state # "json"
    \/ file.json.t # "dict"
    \/ \E i \in DOMAIN file.json.v : MalformedEntry(file.json.v[i])

\* Two values read the same, whatever objects they are made of.
SameContent(v, w) == deepcopy(v) = deepcopy(w)

\* C23: for a file that is missing, unreadable, not valid JSON, not a JSON
\* object or that holds a malformed entry, load_training_openings returns a
\* copy of the given fallback, and of MINIMAL_OPENINGS only when no fallback
\* is given; the copy shares no object with the fallback or with
\* MINIMAL_OPENINGS, so that mutating it changes neither.
C23_FallbackCopyReturned ==
    /\ [](( returned # PyNone /\ Pristine(returned) /\ Unusable(json_file)) =>
             /\ SameContent(returned,
                            IF fallback = PyNone THEN MINIMAL_OPENINGS
                            ELSE fallback)
             /\ Ids(returned) \cap (Ids(fallback) \cup Ids(MINIMAL_OPENINGS)) = {})
    /\ [][fallback' = fallback]_vars

\* A step that ends a game played in Auto: an engine move reaches a terminal
\* position, or a tick takes the last second of the side to move.
AutoGameEnds ==
    /\ auto_mode /\ game_active /\ ~game_active'
    /\ stats'.games = stats.games + 1
    /\ \/ Len(board') = Len(board) + 1 /\ is_game_over(board')
       \/ /\ board' = board
          /\ \/ time_white' = 0 /\ time_white > 0
             \/ time_black' = 0 /\ time_black > 0

\* C24: when a game played in Auto ends on a terminal position or on a flag
\* fall, only the game count is recorded: wins, losses, draws and both streak
\* counters are unchanged.
C24_AutoGameRecordsNoResult ==
    [][AutoGameEnds =>
           /\ stats'.wins = stats.wins
           /\ stats'.losses = stats.losses
           /\ stats'.draws = stats.draws
           /\ stats'.current_streak = stats.current_streak
           /\ stats'.best_streak = stats.best_streak]_vars

\* C25: at most one tick_clock callback is pending at any time, also after a
\* game is started while the clock of the previous game runs or within one
\* tick period of a flag fall.
C25_SingleTickPending == tick_jobs <= 1

\* C26: the position an engine thread asks the engine about is fixed when
\* the thread is started: while a started thread has not sent its position
\* yet, no step (undo, redo, new game, another applied response) changes the
\* position it is going to send.
C26_WorkerAsksIssuedPosition ==
    [][\/ engine_task_position(St)' = engine_task_position(St)
       \/ threads' # threads
       \/ \A i \in DOMAIN threads : threads[i].pc # "set"]_vars

\* C29: set_position and get_best_move of one engine thread are atomic with
\* respect to the other users of the engine: between the two calls (the
\* thread is at "best") no other step changes the position the engine
\* holds.
C29_SetAndBestMoveAtomic ==
    [][\/ engine_pos' = engine_pos
       \/ threads' # threads
       \/ \A i \in DOMAIN threads : threads[i].pc # "best"]_vars

\* Auto games with one request alive at a time and room for two recorded
\* games.
InOneFlight(A) == A /\ (InFlight <= 1)'

NextRecord ==
    \/ InOneFlight(StartAutoGameWith({0}))
    \/ InOneFlight(StopAutoGame)
    \/ InOneFlight(ResignGame)
    \/ InOneFlight(TickFires)
    \/ InOneFlight(AutoJobFires)
    \/ InOneFlight(ProcessEngineQueue)
    \/ InOneFlight(ThreadSetPosition)
    \/ InOneFlight(ThreadBestMove)

SpecRecord == Init /\ [][NextRecord]_vars

\* C27: a game is recorded at most once: the games counter moves only when
\* a game that is still active ends, and then by one; between two game
\* starts it cannot move twice, whatever the order of terminal detection,
\* Resign, flag fall, Stop and late engine responses.
C27_GameRecordedOnce ==
    [][\/ stats'.games = stats.games
       \/ /\ game_active /\ ~game_active'
          /\ stats'.games = stats.games + 1]_vars

CatalogueFiles == {1, 7, 8, 13}

\* The window after __init__ read the openings file.
InitCatalogue ==
    /\ InitFields
    /\ \E i \in CatalogueFiles : json_file = FileCases[i]
    /\ fallback = PyNone
    /\ returned = PyNone
    /\ training_lines = load_default_openings(json_file)

\* The start button with an opening of the combo box selected.
StartNewGameFromCatalogue ==
    StartNewGameWith({0}, Keys(training_lines))

NextCatalogue ==
    \/ InOneRequest(StartNewGameFromCatalogue)
    \/ InOneRequest(TrainingToggle)
    \/ InOneRequest(ResignGame)
    \/ InOneRequest(CanvasClick)
    \/ InOneRequest(TickFires)
    \/ InOneRequest(ManualJobFires)
    \/ InOneRequest(ProcessEngineQueue)
    \/ InOneRequest(ThreadSetPosition)
    \/ InOneRequest(ThreadBestMove)

SpecCatalogue == InitCatalogue /\ [][NextCatalogue]_vars

\* The moves of the first variation of the entry that holds any, as a
\* sequence of SAN strings; empty when the entry has none.
RECURSIVE FirstLine(_)
FirstLine(variations) ==
    IF variations = << >> THEN << >>
    ELSE LET moves == Get(Head(variations), "moves", PyList(0, << >>))
         IN  IF moves.l # << >> THEN [i \in DOMAIN moves.l |-> Str(moves.l[i])]
             ELSE FirstLine(Tail(variations))

\* The line of the opening called name in the loaded catalogue.
LoadedLine(name) ==
    FirstLine(Get(Get(training_lines, name, PyDict(0, << >>, << >>)),
                  "variations", PyList(0, << >>)).l)

\* C30: for every opening of the loaded catalogue that has a variation with
\* moves, starting a new game with the training box ticked and that opening
\* selected activates Training on a non-empty line made of that opening's
\* moves.
C30_LoadedOpeningStartsTraining ==
    \A name \in Keys(training_lines), color_var \in {"white", "black"} :
        (training_mode_var /\ LoadedLine(name) # << >>) =>
            LET r == start_new_game(St, color_var, 1, 0, name)
            IN  /\ r.training_active
                /\ r.training_line = LoadedLine(name)
=============================================================================
